---- MODULE Spec2Model ----
(***************************************************************************)
(* A model of gigagrad: the scalar reverse-mode autodiff engine            *)
(* (src/src/value.rs), the Neuron / Layer / MLP composition built on it    *)
(* (src/src/neuron.rs) and the training loop (src/src/main.rs).            *)
(*                                                                         *)
(* A Value is an Rc<RefCell<ValueData>>: here the heap is a sequence of    *)
(* ValueData records and a Value is the index of its cell (the identity    *)
(* that Rc::as_ptr gives).  f64 numbers are modelled by integers: every    *)
(* input is drawn from values on which the arithmetic of the code is       *)
(* exact in the integers, and f64::tanh is rounded to the nearest integer. *)
(* Option<f64> is the empty sequence (None) or a one-element sequence.     *)
(***************************************************************************)
EXTENDS Integers, Sequences, FiniteSets, TLC

VARIABLES heap, failed, last, count, mlp, pc, locals

vars == <<count, pc, heap, failed, last, mlp, locals>>

(* ------------------------------ bounds --------------------------------- *)

MaxNodes == 3

MaxTopoNodes == 5

MaxUpdateNodes == 2

MaxBackprops == 2

MaxUpdates == 1

MaxCycles == 2

MaxInputs == 3

MaxAbs == 100

LeafVals == {1, 3}

RepeatVals == {1}

Exponents == {2}

LearningRates == {1}

\* MLP::new(Shape[1], <<Shape[2], ..., Shape[n]>>)
Shape == <<2, 2, 1>>

\* The integers of rng.random_range(-1.0..1.0)
ParamVals == {-1, 0}

\* The numbers of a record of the dataset: the inputs and the label.
InputVals == {0, 1}

Labels == {-1, 2}

(* --------------------------- Option<f64> ------------------------------- *)

None == <<>>

Some(x) == <<x>>

unwrap_or(o, d) == IF o = None THEN d ELSE o[1]

(* ------------------------------ f64 ------------------------------------ *)

RECURSIVE ipow(_, _)
ipow(b, n) == IF n = 0 THEN 1 ELSE b * ipow(b, n - 1)

\* f64::powf on the inputs where it is exact: a non-negative exponent, or a
\* base of 1 or -1 (whose reciprocal is itself).
powf(b, e) == IF e >= 0 THEN ipow(b, e) ELSE ipow(b, 0 - e)

ExactPow(b, e) == e >= 1 \/ b \in {1, -1}

\* f64::tanh rounded to the nearest integer: tanh(0) = 0, |tanh(x)| > 0.76
\* for |x| >= 1.
tanh(x) == IF x > 0 THEN 1 ELSE IF x < 0 THEN -1 ELSE 0

powi(x, n) == ipow(x, n)

(* ------------------------------ Oper ----------------------------------- *)

Oper(kind, exp) == [kind |-> kind, exp |-> exp]

Leaf == Oper("Leaf", 0)

(* ---------------------------- ValueData -------------------------------- *)

ValueData(d, g, p, o) == [data |-> d, grad |-> g, _prev |-> p, _op |-> o]

\* Rc::new(RefCell::new(..)): a fresh cell; its identity is its index.
rc_new(h, vd) == Append(h, vd)

Ids(h) == 1..Len(h)

(* ------------------- Value: construction and operators ------------------ *)

value_new(h, x) == rc_new(h, ValueData(x, None, <<>>, Leaf))

value_pow(h, a, e) ==
    rc_new(h, ValueData(powf(h[a].data, e), None, <<a>>, Oper("Pow", e)))

value_tanh(h, a) ==
    rc_new(h, ValueData(tanh(h[a].data), None, <<a>>, Oper("Tanh", 0)))

value_add(h, a, b) ==
    rc_new(h, ValueData(h[a].data + h[b].data, None, <<a, b>>, Oper("Add", 0)))

value_mul(h, a, b) ==
    rc_new(h, ValueData(h[a].data * h[b].data, None, <<a, b>>, Oper("Mul", 0)))

value_sub(h, a, b) ==
    rc_new(h, ValueData(h[a].data - h[b].data, None, <<a, b>>, Oper("Sub", 0)))

\* self * other.pow(-1.0)
value_div(h, a, b) ==
    LET h1 == value_pow(h, b, -1) IN value_mul(h1, a, Len(h1))

\* self * -1.0, that is self * Value::new(-1.0)
value_neg(h, a) ==
    LET h1 == value_new(h, -1) IN value_mul(h1, a, Len(h1))

\* Every Pow node of the heap is one whose value and derivative are exact.
Exact(h) ==
    \A v \in Ids(h) :
        h[v]._op.kind = "Pow" => ExactPow(h[h[v]._prev[1]].data, h[v]._op.exp)

abs(x) == IF x < 0 THEN 0 - x ELSE x

\* Every number of the heap is in the range the model keeps to.
InRange(h) ==
    \A v \in Ids(h) :
        abs(h[v].data) <= MaxAbs /\ abs(unwrap_or(h[v].grad, 0)) <= MaxAbs

(* ----------------------------- update ---------------------------------- *)

\* The result of a call is the heap it leaves and the panic it ended in.
Outcome(h, f) == [heap |-> h, failed |-> f]

\* update with grad.unwrap_or(0.0): a node without a gradient is skipped.
value_update_or_zero(h, v, learning_rate) ==
    Outcome([h EXCEPT ![v].data = @ + (0 - learning_rate) * unwrap_or(h[v].grad, 0)],
            "none")

value_update(h, v, learning_rate) ==
    IF h[v].grad = None
        THEN Outcome(h, "update: unwrap on None")
        ELSE Outcome([h EXCEPT ![v].data = @ + (0 - learning_rate) * h[v].grad[1]],
                     "none")

(* ---------------------------- build_topo ------------------------------- *)

RECURSIVE build_topo(_, _, _)
RECURSIVE build_topo_children(_, _, _, _)

\* build_topo with the visited set keyed by the value of a node.
build_topo_by_value(h, v, acc) ==
    IF h[v].data \in acc.visited THEN acc
    ELSE LET a1 == [acc EXCEPT !.visited = @ \cup {h[v].data}]
             a2 == build_topo_children(h, h[v]._prev, 1, a1)
         IN  [a2 EXCEPT !.topo = Append(@, v)]

build_topo(h, v, acc) ==
    IF v \in acc.visited THEN acc
    ELSE LET a1 == [acc EXCEPT !.visited = @ \cup {v}]
             a2 == build_topo_children(h, h[v]._prev, 1, a1)
         IN  [a2 EXCEPT !.topo = Append(@, v)]

build_topo_children(h, children, i, acc) ==
    IF i > Len(children) THEN acc
    ELSE build_topo_children(h, children, i + 1, build_topo(h, children[i], acc))

topo_of(h, root) == build_topo(h, root, [visited |-> {}, topo |-> <<>>]).topo

(* ------------------------------ backprop ------------------------------- *)

\* The state of the loop of backprop: the heap, the panic that ended it (or
\* "none") and the nodes processed so far, each with the gradient it read.
Walk(h, f, l) == [heap |-> h, failed |-> f, log |-> l]

\* push with child.grad = Some(c): the contribution replaces the gradient.
push_overwrite(s, held, v, c) ==
    IF s.failed # "none" THEN s
    ELSE IF v \in held THEN [s EXCEPT !.failed = "already borrowed"]
    ELSE [s EXCEPT !.heap[v].grad = Some(c)]

\* v.0.borrow_mut() while the cells of `held` are mutably borrowed, then
\* child.grad = Some(child.grad.unwrap_or(0.0) + c).
push(s, held, v, c) ==
    IF s.failed # "none" THEN s
    ELSE IF v \in held THEN [s EXCEPT !.failed = "already borrowed"]
    ELSE [s EXCEPT !.heap[v].grad = Some(unwrap_or(s.heap[v].grad, 0) + c)]

\* &data._prev[i]
indexable(s, n, i) == i <= Len(s.heap[n]._prev)

out_of_bounds(s) == [s EXCEPT !.failed = "index out of bounds"]

RECURSIVE add_rule(_, _, _, _)
add_rule(s, n, g, i) ==
    IF i > Len(s.heap[n]._prev) THEN s
    ELSE add_rule(push(s, {n}, s.heap[n]._prev[i], g), n, g, i + 1)

sub_rule(s, n, g) ==
    IF ~indexable(s, n, 2) THEN out_of_bounds(s)
    ELSE LET a == s.heap[n]._prev[1]
             b == s.heap[n]._prev[2]
         IN  push(push(s, {n}, a, g), {n}, b, 0 - g)

\* The Mul rule without its inner blocks: the borrow of a is still held when
\* b is borrowed.
mul_rule_overlapping(s, n, g) ==
    IF Len(s.heap[n]._prev) < 2 THEN [s EXCEPT !.failed = "index out of bounds"]
    ELSE LET a == s.heap[n]._prev[1]
             b == s.heap[n]._prev[2]
             a_data == s.heap[a].data
             b_data == s.heap[b].data
         IN  push(push(s, {n}, a, b_data * g), {n, a}, b, a_data * g)

mul_rule(s, n, g) ==
    IF ~indexable(s, n, 2) THEN out_of_bounds(s)
    ELSE LET a == s.heap[n]._prev[1]
             b == s.heap[n]._prev[2]
             a_data == s.heap[a].data
             b_data == s.heap[b].data
         IN  IF a = n \/ b = n THEN [s EXCEPT !.failed = "already borrowed"]
             ELSE push(push(s, {n}, a, b_data * g), {n}, b, a_data * g)

pow_rule(s, n, g) ==
    IF ~indexable(s, n, 1) THEN out_of_bounds(s)
    ELSE LET child == s.heap[n]._prev[1]
             exp == s.heap[n]._op.exp
             base_data == s.heap[child].data
             derivative == exp * powf(base_data, exp - 1)
         IN  IF child = n THEN [s EXCEPT !.failed = "already borrowed"]
             ELSE push(s, {n}, child, derivative * g)

tanh_rule(s, n, g) ==
    IF ~indexable(s, n, 1) THEN out_of_bounds(s)
    ELSE LET t == s.heap[n].data
             d == 1 - powi(t, 2)
         IN  push(s, {n}, s.heap[n]._prev[1], d * g)

\* One iteration of `for node in topo.iter().rev()`.
process(s, n) ==
    IF s.failed # "none" THEN s
    ELSE IF s.heap[n].grad = None THEN [s EXCEPT !.failed = "backprop: unwrap on None"]
    ELSE LET g  == s.heap[n].grad[1]
             s1 == [s EXCEPT !.log = Append(@, [node |-> n, grad |-> g])]
             k  == s.heap[n]._op.kind
         IN  CASE k = "Add"  -> add_rule(s1, n, g, 1)
               [] k = "Sub"  -> sub_rule(s1, n, g)
               [] k = "Mul"  -> mul_rule(s1, n, g)
               [] k = "Pow"  -> pow_rule(s1, n, g)
               [] k = "Tanh" -> tanh_rule(s1, n, g)
               [] OTHER      -> s1

RECURSIVE discover(_, _, _)
RECURSIVE discover_children(_, _, _, _)

discover(h, v, acc) ==
    IF v \in acc.visited THEN acc
    ELSE discover_children(h, h[v]._prev, 1,
                           [visited |-> acc.visited \cup {v}, topo |-> Append(acc.topo, v)])

discover_children(h, children, i, acc) ==
    IF i > Len(children) THEN acc
    ELSE discover_children(h, children, i + 1, discover(h, children[i], acc))

\* The nodes in the order a depth-first search from the root discovers them.
visit_order_discovery(h, root) == discover(h, root, [visited |-> {}, topo |-> <<>>]).topo

rev(topo) == [i \in 1..Len(topo) |-> topo[Len(topo) + 1 - i]]

\* topo.iter().rev(): the order in which backprop processes the nodes.
visit_order(h, root) == rev(topo_of(h, root))

RECURSIVE walk(_, _, _)
walk(s, order, i) ==
    IF i > Len(order) THEN s ELSE walk(process(s, order[i]), order, i + 1)

\* The seed written whether or not the root has a gradient.
seed_always(h, root) == [h EXCEPT ![root].grad = Some(1)]

seed(h, root) ==
    IF h[root].grad = None THEN [h EXCEPT ![root].grad = Some(1)] ELSE h

backprop(h, root) ==
    walk(Walk(seed(h, root), "none", <<>>), visit_order(h, root), 1)

(* --------------------- Neuron, Layer, MLP (neuron.rs) ------------------- *)

\* A constructor or a forward call returns the heap it leaves and its value.
Built(h, v) == [heap |-> h, val |-> v]

\* `n` leaves with the first n numbers of `rng`, in order.
RECURSIVE leaves(_, _, _)
leaves(h, rng, n) ==
    IF n = 0 THEN h ELSE value_new(leaves(h, rng, n - 1), rng[n])

\* Neuron::new(size): `size` weights, then the bias, each a fresh leaf with
\* the next number of the generator.
neuron_new(h, size, rng) ==
    LET h1 == leaves(h, rng, size + 1)
    IN  Built(h1, [input_size |-> size,
                   bias |-> Len(h) + size + 1,
                   weights |-> [i \in 1..size |-> Len(h) + i]])

RECURSIVE layer_neurons(_, _, _, _)
layer_neurons(h, input_size, n, rng) ==
    IF n = 0 THEN Built(h, <<>>)
    ELSE LET before == layer_neurons(h, input_size, n - 1, rng)
             skip == (n - 1) * (input_size + 1)
             one == neuron_new(before.heap, input_size,
                               [i \in 1..(input_size + 1) |-> rng[skip + i]])
         IN  Built(one.heap, Append(before.val, one.val))

layer_new(h, input_size, output_size, rng) ==
    LET ns == layer_neurons(h, input_size, output_size, rng)
    IN  Built(ns.heap, [neurons |-> ns.val, input_size |-> input_size,
                        output_size |-> output_size])

\* The numbers of parameters of the layers (prev_size, size), ... of a shape
\* <<inputs_size, size_1, ..., size_n>>, up to layer k.
RECURSIVE n_params(_, _)
n_params(shape, k) ==
    IF k = 0 THEN 0
    ELSE n_params(shape, k - 1) + shape[k + 1] * (shape[k] + 1)

RECURSIVE mlp_layers(_, _, _, _)
mlp_layers(h, shape, k, rng) ==
    IF k = 0 THEN Built(h, <<>>)
    ELSE LET before == mlp_layers(h, shape, k - 1, rng)
             skip == n_params(shape, k - 1)
             one == layer_new(before.heap, shape[k], shape[k + 1],
                              [i \in 1..(shape[k + 1] * (shape[k] + 1)) |-> rng[skip + i]])
         IN  Built(one.heap, Append(before.val, one.val))

\* MLP::new(inputs_size, layer_sizes), with shape = <<inputs_size>> \o layer_sizes.
mlp_new(h, shape, rng) ==
    LET ls == mlp_layers(h, shape, Len(shape) - 1, rng)
    IN  Built(ls.heap, [layers |-> ls.val, input_size |-> shape[1]])

Min(a, b) == IF a < b THEN a ELSE b

\* The loop of Neuron::call adding each product into the cell of `sum`, which
\* starts as the cell of the bias.
RECURSIVE neuron_sum_in_place(_, _, _, _, _)
neuron_sum_in_place(h, nrn, inputs, sum, i) ==
    IF i > Len(inputs) \/ i > Len(nrn.weights) THEN Built(h, sum)
    ELSE LET h1 == value_mul(h, nrn.weights[i], inputs[i])
             h2 == [h1 EXCEPT ![sum].data = @ + h1[Len(h1)].data]
         IN  neuron_sum_in_place(h2, nrn, inputs, sum, i + 1)

\* The loop of Neuron::call over inputs.iter().zip(&self.weights): the pairs
\* i .. of the zip, which ends with the shorter of the two.
RECURSIVE neuron_sum(_, _, _, _, _)
neuron_sum(h, nrn, inputs, sum, i) ==
    IF i > Min(Len(inputs), Len(nrn.weights)) THEN Built(h, sum)
    ELSE LET h1 == value_mul(h, nrn.weights[i], inputs[i])
             h2 == value_add(h1, sum, Len(h1))
         IN  neuron_sum(h2, nrn, inputs, Len(h2), i + 1)

neuron_call(h, nrn, inputs) ==
    LET s  == neuron_sum(h, nrn, inputs, nrn.bias, 1)
        h1 == value_tanh(s.heap, s.val)
    IN  Built(h1, Len(h1))

\* parameters without the bias.
neuron_parameters_weights_only(nrn) == nrn.weights

neuron_parameters(nrn) == Append(nrn.weights, nrn.bias)

RECURSIVE layer_forward_from(_, _, _, _)
layer_forward_from(h, layer, inputs, n) ==
    IF n = 0 THEN Built(h, <<>>)
    ELSE LET before == layer_forward_from(h, layer, inputs, n - 1)
             one == neuron_call(before.heap, layer.neurons[n], inputs)
         IN  Built(one.heap, Append(before.val, one.val))

layer_forward(h, layer, inputs) ==
    layer_forward_from(h, layer, inputs, Len(layer.neurons))

RECURSIVE layer_parameters_from(_, _)
layer_parameters_from(layer, n) ==
    IF n = 0 THEN <<>>
    ELSE layer_parameters_from(layer, n - 1) \o neuron_parameters(layer.neurons[n])

layer_parameters(layer) == layer_parameters_from(layer, Len(layer.neurons))

RECURSIVE mlp_forward_from(_, _, _, _)
mlp_forward_from(h, m, inputs, k) ==
    IF k = 0 THEN Built(h, inputs)
    ELSE LET before == mlp_forward_from(h, m, inputs, k - 1)
         IN  layer_forward(before.heap, m.layers[k], before.val)

mlp_forward(h, m, inputs) == mlp_forward_from(h, m, inputs, Len(m.layers))

RECURSIVE mlp_parameters_from(_, _)
mlp_parameters_from(m, k) ==
    IF k = 0 THEN <<>>
    ELSE mlp_parameters_from(m, k - 1) \o layer_parameters(m.layers[k])

mlp_parameters(m) == mlp_parameters_from(m, Len(m.layers))

\* for p in self.parameters().iter() { p.update(learning_rate) }: a panic of
\* update ends the loop.
RECURSIVE descend_from(_, _, _, _)
descend_from(h, ps, learning_rate, i) ==
    IF i = 0 THEN Outcome(h, "none")
    ELSE LET before == descend_from(h, ps, learning_rate, i - 1)
         IN  IF before.failed # "none" THEN before
             ELSE value_update(before.heap, ps[i], learning_rate)

mlp_descend(h, m, learning_rate) ==
    LET ps == mlp_parameters(m) IN descend_from(h, ps, learning_rate, Len(ps))

(* ------------------------- the engine's state -------------------------- *)

grads(h) == [v \in Ids(h) |-> h[v].grad]

\* What the last call was: its name, its argument, and for backprop the
\* gradients it started from, the order it built and the nodes it processed.
Call(name, arg, pre, topo, log) ==
    [op |-> name, arg |-> arg, pre |-> pre, topo |-> topo, log |-> log]

NoCall == Call("none", 0, <<>>, <<>>, <<>>)

NoLocals == [inputs |-> <<>>, targets |-> <<>>, outputs |-> <<>>, loss |-> 0,
             cycle |-> 0, persist |-> 0]

Init ==
    /\ heap = <<>>
    /\ failed = "none"
    /\ last = NoCall
    /\ count = [backprop |-> 0, update |-> 0]
    /\ mlp = <<>>
    /\ pc = "api"
    /\ locals = NoLocals

\* A call of the Value API that builds nodes: it runs while no panic has
\* ended the program, and leaves at most `cap` nodes.
Build(name, arg, h, cap) ==
    /\ pc = "api"
    /\ failed = "none"
    /\ Len(heap) < cap
    /\ Len(h) <= cap
    /\ Exact(h)
    /\ InRange(h)
    /\ heap' = h
    /\ last' = Call(name, arg, <<>>, <<>>, <<>>)
    /\ UNCHANGED <<failed, count, mlp, pc, locals>>

New(x, cap) == Build("new", x, value_new(heap, x), cap)

Add(a, b, cap) == Build("add", <<a, b>>, value_add(heap, a, b), cap)

Sub(a, b, cap) == Build("sub", <<a, b>>, value_sub(heap, a, b), cap)

Mul(a, b, cap) == Build("mul", <<a, b>>, value_mul(heap, a, b), cap)

Div(a, b, cap) == Build("div", <<a, b>>, value_div(heap, a, b), cap)

Neg(a, cap) == Build("neg", a, value_neg(heap, a), cap)

Pow(a, e, cap) == Build("pow", <<a, e>>, value_pow(heap, a, e), cap)

Tanh(a, cap) == Build("tanh", a, value_tanh(heap, a), cap)

Update(a, lr) ==
    /\ pc = "api"
    /\ failed = "none"
    /\ LET r == value_update(heap, a, lr)
       IN  /\ Exact(r.heap)
           /\ InRange(r.heap)
           /\ heap' = r.heap
           /\ failed' = r.failed
    /\ last' = Call("update", <<a, lr>>, <<>>, <<>>, <<>>)
    /\ count' = [count EXCEPT !.update = @ + 1]
    /\ UNCHANGED <<mlp, pc, locals>>

Backprop(root) ==
    /\ pc = "api"
    /\ failed = "none"
    /\ LET r == backprop(heap, root)
       IN  /\ InRange(r.heap)
           /\ heap' = r.heap
           /\ failed' = r.failed
           /\ last' = Call("backprop", root, grads(heap), topo_of(heap, root), r.log)
    /\ count' = [count EXCEPT !.backprop = @ + 1]
    /\ UNCHANGED <<mlp, pc, locals>>

\* No node of the heap carries a gradient.
Unset(h) == \A v \in Ids(h) : h[v].grad = None

\* The Value API on an expression whose gradients are all unset: any
\* sequence of operations, and a backward pass from any node.
Next ==
    \/ \E x \in LeafVals : New(x, MaxNodes)
    \/ \E a, b \in Ids(heap) : Add(a, b, MaxNodes)
    \/ \E a, b \in Ids(heap) : Sub(a, b, MaxNodes)
    \/ \E a, b \in Ids(heap) : Mul(a, b, MaxNodes)
    \/ \E a, b \in Ids(heap) : Div(a, b, MaxNodes)
    \/ \E a \in Ids(heap) : Neg(a, MaxNodes)
    \/ \E a \in Ids(heap), e \in Exponents : Pow(a, e, MaxNodes)
    \/ \E a \in Ids(heap) : Tanh(a, MaxNodes)
    \/ \E a \in Ids(heap) : Unset(heap) /\ Backprop(a)

Spec == Init /\ [][Next]_vars

\* The Value API with repeated backward passes, from any nodes in any order,
\* over nodes that carry the gradients of the passes before.
NextRepeat ==
    \/ \E x \in RepeatVals : New(x, MaxNodes)
    \/ \E a, b \in Ids(heap) : Add(a, b, MaxNodes)
    \/ \E a, b \in Ids(heap) : Sub(a, b, MaxNodes)
    \/ \E a, b \in Ids(heap) : Mul(a, b, MaxNodes)
    \/ \E a, b \in Ids(heap) : Div(a, b, MaxNodes)
    \/ \E a \in Ids(heap) : Neg(a, MaxNodes)
    \/ \E a \in Ids(heap), e \in Exponents : Pow(a, e, MaxNodes)
    \/ \E a \in Ids(heap) : Tanh(a, MaxNodes)
    \/ \E a \in Ids(heap) : count.backprop < MaxBackprops /\ Backprop(a)

SpecRepeat == Init /\ [][NextRepeat]_vars

\* The Value API with update: a backward pass, and update of any node, with
\* or without a gradient.
NextUpdate ==
    \/ \E x \in LeafVals : New(x, MaxUpdateNodes)
    \/ \E a, b \in Ids(heap) : Add(a, b, MaxUpdateNodes)
    \/ \E a, b \in Ids(heap) : Sub(a, b, MaxUpdateNodes)
    \/ \E a, b \in Ids(heap) : Mul(a, b, MaxUpdateNodes)
    \/ \E a \in Ids(heap), e \in Exponents : Pow(a, e, MaxUpdateNodes)
    \/ \E a \in Ids(heap) : Tanh(a, MaxUpdateNodes)
    \/ \E a \in Ids(heap) : Unset(heap) /\ Backprop(a)
    \/ \E a \in Ids(heap), lr \in LearningRates :
          count.update < MaxUpdates /\ Update(a, lr)

SpecUpdate == Init /\ [][NextUpdate]_vars

\* Expression graphs of every shape (leaves, one-operand and two-operand
\* operations over any earlier nodes) and one backward pass from the node
\* built last.  A pass from an earlier node r reaches only nodes built before
\* r, so it is the pass from the last node of the graph as it was when r was
\* built.
NextTopo ==
    \/ Unset(heap) /\ New(1, MaxTopoNodes)
    \/ \E a, b \in Ids(heap) : Unset(heap) /\ Add(a, b, MaxTopoNodes)
    \/ \E a \in Ids(heap) : Unset(heap) /\ Pow(a, 2, MaxTopoNodes)
    \/ heap # <<>> /\ Unset(heap) /\ Backprop(Len(heap))

SpecTopo == Init /\ [][NextTopo]_vars

(* ------------------------ the training loop (main.rs) ------------------- *)

\* load_data: per record the leaves of its two inputs, then of its label.
RECURSIVE load_data(_, _)
load_data(h, records) ==
    IF records = <<>> THEN [heap |-> h, inputs |-> <<>>, targets |-> <<>>]
    ELSE LET n == Len(records)
             before == load_data(h, SubSeq(records, 1, n - 1))
             r == records[n]
             h1 == value_new(value_new(value_new(before.heap, r[1]), r[2]), r[3])
         IN  [heap |-> h1,
              inputs |-> Append(before.inputs, <<Len(h1) - 2, Len(h1) - 1>>),
              targets |-> Append(before.targets, Len(h1))]

\* self / other, that is self * Value::new(other).pow(-1.0)
value_div_f64(h, a, x) ==
    LET h1 == value_new(h, x)
        h2 == value_pow(h1, Len(h1), -1)
    IN  value_mul(h2, a, Len(h2))

\* for input in inputs.iter() { outputs.push(mlp.forward(input)) }
RECURSIVE forward_all(_, _, _, _)
forward_all(h, m, inputs, n) ==
    IF n = 0 THEN Built(h, <<>>)
    ELSE LET before == forward_all(h, m, inputs, n - 1)
             one == mlp_forward(before.heap, m, inputs[n])
         IN  Built(one.heap, Append(before.val, one.val))

\* tmp = &out[0] - target; tmp.pow(2.0)
squared_error(h, out, target) ==
    LET h1 == value_sub(h, out[1], target) IN value_pow(h1, Len(h1), 2)

\* The sum of the squared errors of the samples 2 .. n, added to `loss`.
RECURSIVE loss_sum(_, _, _, _, _)
loss_sum(h, outputs, targets, loss, n) ==
    IF n <= 1 THEN Built(h, loss)
    ELSE LET before == loss_sum(h, outputs, targets, loss, n - 1)
             h1 == squared_error(before.heap, outputs[n], targets[n])
             h2 == value_add(h1, before.val, Len(h1))
         IN  Built(h2, Len(h2))

\* Lines 62 to 71 of main: the mean of the squared errors.
mean_squared_error(h, outputs, targets) ==
    LET h1 == squared_error(h, outputs[1], targets[1])
        s  == loss_sum(h1, outputs, targets, Len(h1), Min(Len(outputs), Len(targets)))
        h2 == value_div_f64(s.heap, s.val, Len(outputs))
    IN  Built(h2, Len(h2))

\* The data set of one record and the network of Shape, its parameters drawn
\* from ParamVals.
InitTrain ==
    \E x \in InputVals, y \in InputVals, label \in Labels,
       rng \in [1..n_params(Shape, Len(Shape) - 1) -> ParamVals] :
        LET data == load_data(<<>>, << <<x, y, label>> >>)
            net == mlp_new(data.heap, Shape, rng)
        IN  /\ heap = net.heap
            /\ mlp = net.val
            /\ locals = [inputs |-> data.inputs, targets |-> data.targets,
                         outputs |-> <<>>, loss |-> 0, cycle |-> 1,
                         persist |-> Len(net.heap)]
            /\ failed = "none"
            /\ last = NoCall
            /\ count = [backprop |-> 0, update |-> 0]
            /\ pc = "forward"

Forward ==
    /\ pc = "forward"
    /\ failed = "none"
    /\ LET r == forward_all(heap, mlp, locals.inputs, Len(locals.inputs))
       IN  /\ heap' = r.heap
           /\ locals' = [locals EXCEPT !.outputs = r.val]
    /\ last' = Call("forward", 0, <<>>, <<>>, <<>>)
    /\ pc' = "loss"
    /\ UNCHANGED <<failed, count, mlp>>

\* The loss, and the test that ends the loop.
Loss ==
    /\ pc = "loss"
    /\ failed = "none"
    /\ LET r == mean_squared_error(heap, locals.outputs, locals.targets)
       IN  /\ Exact(r.heap)
           /\ heap' = r.heap
           /\ locals' = [locals EXCEPT !.loss = r.val]
           /\ pc' = IF r.heap[r.val].data = 0 THEN "done" ELSE "backprop"
    /\ last' = Call("loss", 0, <<>>, <<>>, <<>>)
    /\ UNCHANGED <<failed, count, mlp>>

BackpropLoss ==
    /\ pc = "backprop"
    /\ failed = "none"
    /\ LET root == locals.loss
           r == backprop(heap, root)
       IN  /\ InRange(r.heap)
           /\ heap' = r.heap
           /\ failed' = r.failed
           /\ last' = Call("backprop", root, grads(heap), topo_of(heap, root), r.log)
    /\ count' = [count EXCEPT !.backprop = @ + 1]
    /\ pc' = "descend"
    /\ UNCHANGED <<mlp, locals>>

Descend(lr) ==
    /\ pc = "descend"
    /\ failed = "none"
    /\ LET r == mlp_descend(heap, mlp, lr)
       IN  /\ InRange(r.heap)
           /\ heap' = r.heap
           /\ failed' = r.failed
    /\ last' = Call("descend", lr, <<>>, <<>>, <<>>)
    /\ pc' = "end"
    /\ UNCHANGED <<count, mlp, locals>>

\* The end of the body of the loop: outputs and loss go out of scope, and
\* with them every node built in this iteration.
EndIteration ==
    /\ pc = "end"
    /\ failed = "none"
    /\ locals.cycle < MaxCycles
    /\ heap' = SubSeq(heap, 1, locals.persist)
    /\ locals' = [locals EXCEPT !.outputs = <<>>, !.loss = 0, !.cycle = @ + 1]
    /\ last' = Call("end", 0, <<>>, <<>>, <<>>)
    /\ pc' = "forward"
    /\ UNCHANGED <<failed, count, mlp>>

NextTrain ==
    \/ Forward
    \/ Loss
    \/ BackpropLoss
    \/ \E lr \in LearningRates : Descend(lr)
    \/ EndIteration

SpecTrain == InitTrain /\ [][NextTrain]_vars

\* `k` inputs: the inputs of the record, repeated or cut to length k.
inputs_of_len(sample, k) == [i \in 1..k |-> sample[((i - 1) % Len(sample)) + 1]]

\* neuron.call(&inputs) on neuron n of layer l, with inputs of any length.
NeuronCall(l, n, inputs) ==
    /\ pc = "forward"
    /\ failed = "none"
    /\ LET r == neuron_call(heap, mlp.layers[l].neurons[n], inputs)
       IN  /\ heap' = r.heap
           /\ locals' = [locals EXCEPT !.outputs = << <<r.val>> >>]
    /\ last' = Call("call", <<l, n, inputs>>, <<>>, <<>>, <<>>)
    /\ pc' = "called"
    /\ UNCHANGED <<failed, count, mlp>>

NextCall ==
    \E l \in 1..Len(mlp.layers), k \in 0..MaxInputs :
        \E n \in 1..Len(mlp.layers[l].neurons) :
            NeuronCall(l, n, inputs_of_len(locals.inputs[1], k))

SpecCall == InitTrain /\ [][NextCall]_vars

(* ------------------------------ properties ----------------------------- *)

Operands(h, v) == {h[v]._prev[i] : i \in 1..Len(h[v]._prev)}

RECURSIVE Closure(_, _)
Closure(h, S) ==
    LET T == S \cup UNION {Operands(h, v) : v \in S}
    IN  IF T = S THEN S ELSE Closure(h, T)

\* The nodes reachable from r through operands.
Reach(h, r) == Closure(h, {r})

\* The local derivative of node m with respect to its operand in slot i.
Local(h, m, i) ==
    LET k == h[m]._op.kind
    IN  CASE k = "Add"  -> 1
          [] k = "Sub"  -> IF i = 1 THEN 1 ELSE -1
          [] k = "Mul"  -> h[h[m]._prev[3 - i]].data
          [] k = "Pow"  -> h[m]._op.exp * powf(h[h[m]._prev[1]].data, h[m]._op.exp - 1)
          [] k = "Tanh" -> 1 - h[m].data * h[m].data
          [] OTHER      -> 0

\* The sum, over the operand paths from m to n, of the product of the local
\* derivatives along the path.
RECURSIVE PathSum(_, _, _)
PathSum(h, m, n) ==
    IF m = n THEN 1
    ELSE LET p == h[m]._prev
         IN  (IF Len(p) >= 1 THEN Local(h, m, 1) * PathSum(h, p[1], n) ELSE 0)
           + (IF Len(p) >= 2 THEN Local(h, m, 2) * PathSum(h, p[2], n) ELSE 0)

\* What the nodes 1 .. k push onto n in a pass that reaches the nodes R: each
\* consumer c of n pushes, per slot holding n, its local derivative times
\* the gradient of c.
RECURSIVE Pushed(_, _, _, _)
Pushed(h, R, n, k) ==
    IF k = 0 THEN 0
    ELSE Pushed(h, R, n, k - 1)
         + (IF k \in R /\ Len(h[k]._prev) >= 1 /\ h[k]._prev[1] = n
                THEN Local(h, k, 1) * h[k].grad[1] ELSE 0)
         + (IF k \in R /\ Len(h[k]._prev) >= 2 /\ h[k]._prev[2] = n
                THEN Local(h, k, 2) * h[k].grad[1] ELSE 0)

Arity(kind) ==
    CASE kind \in {"Add", "Sub", "Mul"} -> 2
      [] kind \in {"Pow", "Tanh"} -> 1
      [] OTHER -> 0

\* The weights and biases of the network.
ParamSet(m) ==
    UNION {UNION {{m.layers[l].neurons[n].bias}
                    \cup {m.layers[l].neurons[n].weights[i] :
                            i \in 1..Len(m.layers[l].neurons[n].weights)} :
                  n \in 1..Len(m.layers[l].neurons)} :
           l \in 1..Len(m.layers)}

\* C7: the order build_topo produces holds every node reachable from the
\* root exactly once (by identity, whatever the values) and no other node,
\* every node after all of its operands, and the root last.
C7_TopoOrder ==
    last.op = "backprop" =>
        LET topo == last.topo
            root == last.arg
            R == Reach(heap, root)
        IN  /\ {topo[i] : i \in 1..Len(topo)} = R
            /\ Len(topo) = Cardinality(R)
            /\ \A i \in 1..Len(topo) :
                   \A c \in Operands(heap, topo[i]) :
                       \E j \in 1..(i - 1) : topo[j] = c
            /\ topo[Len(topo)] = root

\* An order over two distinct reachable nodes of equal value, in a graph
\* with a shared operand.
C7_Witness ==
    /\ last.op = "backprop"
    /\ Len(last.topo) >= 4
    /\ \E u, v \in Reach(heap, last.arg) : u # v /\ heap[u].data = heap[v].data
    /\ \E u, v \in Reach(heap, last.arg) :
           /\ u # v
           /\ \E n \in Operands(heap, u) \cap Operands(heap, v) : TRUE

\* C3: in a backward pass every reachable node other than the root is
\* processed after every reachable node that has it as an operand, so the
\* gradient it is processed with is its final gradient.
C3_ConsumersFirst ==
    last.op = "backprop" =>
        LET root == last.arg
            log == last.log
            R == Reach(heap, root)
        IN  \A n \in R \ {root} :
                \E p \in 1..Len(log) :
                    /\ log[p].node = n
                    /\ heap[n].grad = Some(log[p].grad)
                    /\ \A c \in R :
                           n \in Operands(heap, c) =>
                               \E q \in 1..(p - 1) : log[q].node = c

\* A pass over a diamond: a non-leaf node feeds two operations that both
\* feed the root.
C3_Witness ==
    /\ last.op = "backprop"
    /\ failed = "none"
    /\ \E d, e, f \in Reach(heap, last.arg) :
           /\ heap[d]._prev # <<>>
           /\ e # f
           /\ d \in Operands(heap, e) /\ d \in Operands(heap, f)
           /\ Operands(heap, last.arg) = {e, f}

\* C1: where a node reaches the root along several operand paths, a
\* backward pass over unset gradients and operations other than tanh
\* completes and leaves on every reachable node the sum over those paths of
\* the product of the local derivatives; c = (a * a) + a with a = 3 leaves 7
\* on a.
C1_GradientIsPathSum ==
    (/\ last.op = "backprop"
     /\ \A v \in DOMAIN last.pre : last.pre[v] = None
     /\ \A v \in Reach(heap, last.arg) : heap[v]._op.kind # "Tanh")
    => /\ failed = "none"
       /\ \A n \in Reach(heap, last.arg) :
              heap[n].grad = Some(PathSum(heap, last.arg, n))

\* c = (a * a) + a with a = 3, after c.backprop(): a.grad() is 7.
C1_Witness ==
    /\ last.op = "backprop"
    /\ last.arg = 3
    /\ Len(heap) = 3
    /\ heap[1].data = 3 /\ heap[1]._op.kind = "Leaf"
    /\ heap[2]._op.kind = "Mul" /\ heap[2]._prev = <<1, 1>>
    /\ heap[3]._op.kind = "Add" /\ heap[3]._prev = <<2, 1>>
    /\ heap[1].grad = Some(7)

\* C9: a backward pass never fails: every node is built with the number of
\* operands its operation reads, every node of the order is processed with
\* a gradient that is set, and no cell is borrowed while it is borrowed,
\* also where both operands of an operation are the same node and where
\* gradients are set from passes before.
C9_BackpropCompletes ==
    /\ failed = "none"
    /\ \A v \in Ids(heap) : Len(heap[v]._prev) = Arity(heap[v]._op.kind)
    /\ last.op = "backprop" =>
           /\ Len(last.log) = Len(last.topo)
           /\ \A v \in Reach(heap, last.arg) : heap[v].grad # None

\* A pass over a product of a node with itself, some gradients set before
\* the pass and some unset.
C9_Witness ==
    /\ last.op = "backprop"
    /\ failed = "none"
    /\ \E v \in Reach(heap, last.arg) :
           /\ heap[v]._op.kind = "Mul"
           /\ heap[v]._prev[1] = heap[v]._prev[2]
    /\ \E u, v \in Reach(heap, last.arg) : last.pre[u] # None /\ last.pre[v] = None

\* C10: a backward pass never clears or overwrites a set gradient: the root
\* keeps its gradient and gets 1 only if it had none, every other reachable
\* node ends with what it had (0 if unset) plus what the pass pushes onto
\* it, and a node the pass does not reach keeps its gradient; a second pass
\* adds to the first.
C10_BackpropAccumulates ==
    (last.op = "backprop" /\ failed = "none") =>
        LET root == last.arg
            pre == last.pre
            R == Reach(heap, root)
        IN  /\ heap[root].grad = (IF pre[root] = None THEN Some(1) ELSE pre[root])
            /\ \A n \in R \ {root} :
                   heap[n].grad =
                       Some(unwrap_or(pre[n], 0) + Pushed(heap, R, n, Len(heap)))
            /\ \A n \in Ids(heap) \ R : heap[n].grad = pre[n]

\* A second pass, from a root whose gradient was set, over a node whose set
\* gradient grows, with a node out of reach that has a gradient.
C10_Witness ==
    /\ last.op = "backprop"
    /\ failed = "none"
    /\ count.backprop = 2
    /\ last.pre[last.arg] # None
    /\ \E n \in Reach(heap, last.arg) \ {last.arg} :
           last.pre[n] # None /\ heap[n].grad # last.pre[n]
    /\ \E u \in Ids(heap) \ Reach(heap, last.arg) : heap[u].grad # None

\* C5: update on a node whose gradient is unset fails at once and leaves
\* the node, and every other node, as it was.
C5_UpdateUnsetFails ==
    [][(/\ count'.update # count.update
        /\ heap[last'.arg[1]].grad = None)
       => (failed' # "none" /\ heap' = heap)]_vars

\* update has failed on a node without a gradient.
C5_Witness ==
    /\ last.op = "update"
    /\ failed = "update: unwrap on None"
    /\ heap[last.arg[1]].grad = None

\* C8: descend changes the value of every weight and every bias of the
\* network exactly once, to its old value minus the learning rate times its
\* gradient, and changes no gradient and no other node.
C8_DescendStepsEveryParameter ==
    [][(/\ pc = "descend"
        /\ pc' = "end"
        /\ \A p \in ParamSet(mlp) : heap[p].grad # None)
       => (/\ failed' = "none"
           /\ Len(heap') = Len(heap)
           /\ \A v \in Ids(heap) :
                  heap'[v] =
                      IF v \in ParamSet(mlp)
                      THEN [heap[v] EXCEPT !.data = @ - last'.arg * heap[v].grad[1]]
                      ELSE heap[v])]_vars

\* descend has run over a network in which a bias and a weight had a gradient
\* other than 0.
C8_Witness ==
    /\ last.op = "descend"
    /\ failed = "none"
    /\ \E l \in 1..Len(mlp.layers) :
           \E n \in 1..Len(mlp.layers[l].neurons) :
               /\ heap[mlp.layers[l].neurons[n].bias].grad \notin {None, Some(0)}
               /\ \E i \in 1..Len(mlp.layers[l].neurons[n].weights) :
                      heap[mlp.layers[l].neurons[n].weights[i]].grad
                          \notin {None, Some(0)}

\* C6: the value of a node changes only in update and descend: the forward
\* pass, the loss, the backward pass and the end of an iteration leave the
\* value of every node that exists before and after them as it was.
C6_ValuesChangeOnlyInDescend ==
    [][pc # "descend"
       => \A v \in 1..Min(Len(heap), Len(heap')) : heap'[v].data = heap[v].data]_vars

\* The second backward pass of a training run whose first descend changed a
\* parameter.
C6_Witness ==
    /\ pc = "descend"
    /\ locals.cycle = 2
    /\ last.op = "backprop"
    /\ \E p \in ParamSet(mlp) : heap[p].grad \notin {None, Some(0)}

\* C2: in every training cycle the gradient descend reads from a parameter
\* is the gradient of that cycle's loss alone.
C2_GradientOfThisCycle ==
    pc = "descend" =>
        \A p \in ParamSet(mlp) :
            heap[p].grad = Some(PathSum(heap, locals.loss, p))

\* descend is about to run in the second cycle on a parameter whose gradient
\* holds what the first cycle left on it besides the gradient of this loss.
C2_Witness ==
    /\ pc = "descend"
    /\ locals.cycle = 2
    /\ \E p \in ParamSet(mlp) :
           /\ last.pre[p] \notin {None, Some(0)}
           /\ heap[p].grad = Some(last.pre[p][1] + PathSum(heap, locals.loss, p))

\* In the first cycle the gradient of every parameter is the gradient of
\* the loss.
C2_FirstCycle ==
    (pc = "descend" /\ locals.cycle = 1) =>
        \A p \in ParamSet(mlp) :
            heap[p].grad = Some(PathSum(heap, locals.loss, p))

\* C4: Neuron.call with a number of inputs other than the number of weights
\* signals a failure and returns no node.
C4_MismatchFails ==
    (/\ last.op = "call"
     /\ Len(last.arg[3])
            # Len(mlp.layers[last.arg[1]].neurons[last.arg[2]].weights))
    => (failed # "none" /\ Len(heap) = locals.persist)

\* A call with fewer inputs than weights has returned a node.
C4_Witness ==
    /\ last.op = "call"
    /\ Len(last.arg[3]) < Len(mlp.layers[last.arg[1]].neurons[last.arg[2]].weights)
    /\ failed = "none"
    /\ Len(heap) > locals.persist
    /\ heap[locals.outputs[1][1]]._op.kind = "Tanh"

====
